---- MODULE Spec2Model ----
(***************************************************************************)
(* Model of ClusterBuilder (testsuite/cluster-test/src/cluster_builder.rs): *)
(* setup_cluster, spawn_validator_and_fullnode_set, initialize_vault and    *)
(* generate_genesis, as a state machine whose steps are the await points of  *)
(* the async code.  Arrays are 0-based as in the source.                    *)
(***************************************************************************)
EXTENDS Integers, Sequences, FiniteSets, Bags, TLC

\* ----------------------------------------------------------------- bounds
MaxValidators == 2
MaxFullnodes == 2
\* Stands for the 15 retries of fixed_retry_strategy(5000, 15).
MaxRetries == 1

\* -------------------------------------------------------------- constants
VAULT_BACKEND == "vault"
LIBRA_ROOT_NAME == "libra"
LIBRA_ROOT_KEY == "libra_root"
OWNER_KEY == "owner"
OPERATOR_KEY == "operator"
CONSENSUS_KEY == "consensus"
EXECUTION_KEY == "execution"
VALIDATOR_NETWORK_KEY == "validator_network"
FULLNODE_NETWORK_KEY == "fullnode_network"
GENESIS_PATH == "/tmp/genesis.blob"
GENESIS_DEST == "/opt/libra/etc/genesis2.blob"
VAULT_PORT == 8200

Backends == {"vault", "in-memory"}
\* Contents of GENESIS_PATH: whatever an earlier run left there (nothing, or
\* a stale blob; unknown until the file is read), or one of the artifacts
\* the genesis tool can produce.
Leftover == "leftover"
StaleBlob == "stale"
NoFile == "absent"
Blobs == {"genesis.blob"}

VARIABLES
  params,           \* ClusterBuilderParams and clean_data
  pc,               \* position of the orchestrator
  result,           \* what setup_cluster returned
  instance_count,   \* local of setup_cluster
  tasks,            \* states of the futures of the try_join_all being awaited
  vault_nodes, lsrs_nodes, validator_nodes, fullnode_nodes,
  issued,           \* bag of scheduler / scaler calls issued
  completed,        \* set of those calls that returned Ok
  attempts,         \* per vault index: initialize_vault invocations started
  store,            \* per vault index: key names held by that secret store
  rootKeyCalls,     \* bag of validator_index values that issued create_key(root)
  glog,             \* sequence of genesis-tool calls issued
  gpending,         \* TRUE while the last genesis-tool call has not returned
  gi,               \* loop index of generate_genesis
  genesisFile,      \* contents of GENESIS_PATH on the local file system
  artifact,         \* what Finalize produced in this run
  nodeFiles,        \* files put_file stored: [node, container, path, bytes]
  instances,        \* vectors of spawned instances, by role
  pipeline          \* generate_genesis: "idle", "running", "done" or "failed"

vars == <<params, pc, result, instance_count, tasks, vault_nodes, lsrs_nodes,
          validator_nodes, fullnode_nodes, issued, completed, attempts, store,
          rootKeyCalls, glog, gpending, gi, genesisFile, artifact,
          nodeFiles, instances, pipeline>>

\* ------------------------------------------------------------ node names
PodName(role, i, f) == [role |-> role, idx |-> i, sub |-> f]
vault_pod_name(i) == PodName("vault", i, 0)
lsr_pod_name(i) == PodName("lsr", i, 0)
validator_pod_name(i) == PodName("validator", i, 0)
fullnode_pod_name(v, f) == PodName("fullnode", v, f)
NoNode == PodName("none", 0, 0)

\* KubeNode: the handle allocate_node returns for a pod name.
KubeNode(name) == [name |-> name, internal_ip |-> <<"ip", name>>]

\* 0-based indexing of a Vec, as the source indexes it.
At(v, i) == v[i + 1]
InBounds(v, i) == i >= 0 /\ i < Len(v)
VaultUrl(node) == <<"http", node.internal_ip, VAULT_PORT>>

\* ---------------------------------------------------------------- errors
\* anyhow errors: the failing call, and the contexts wrapped around it.
Err(op, target) == [op |-> op, target |-> target, ctx |-> <<>>]
Wrap(prefix, e) == [e EXCEPT !.ctx = <<prefix>> \o @]
NoErr == Err("none", NoNode)

Running == [kind |-> "running", err |-> NoErr]
ReturnErr(e) == [kind |-> "err", err |-> e]
ReturnOk == [kind |-> "ok", err |-> NoErr]
Panicked(what) == [kind |-> "panic", err |-> Err(what, NoNode)]

\* ----------------------------------------------------------------- calls
\* Arguments of a call, in one shape for every call: the peer seed and
\* signing-proxy addresses of a role configuration, a count, and bytes/flags.
NoIp == <<"ip", NoNode>>
Arg(seed, lsr, num, data) == [seed |-> seed, lsr |-> lsr, num |-> num, data |-> data]
NoArg == Arg(NoIp, NoIp, 0, "")
Call(op, node, arg) == [op |-> op, node |-> node, arg |-> arg]
Issue(b, c) == b (+) SetToBag({c})
Count(b, c) == IF BagIn(c, b) THEN CopiesIn(c, b) ELSE 0

enable_lsr == params.enable_lsr
N == params.num_validators
F == params.fullnodes_per_validator

\* ------------------------------------------------------------------ Init
Init ==
  /\ params \in [num_validators : 1..MaxValidators,
                 fullnodes_per_validator : 0..MaxFullnodes,
                 enable_lsr : BOOLEAN,
                 lsr_backend : Backends,
                 clean_data : BOOLEAN]
  /\ pc = "cleanup"
  /\ result = Running
  /\ instance_count = 0
  /\ tasks = <<>>
  /\ vault_nodes = <<>>
  /\ lsrs_nodes = <<>>
  /\ validator_nodes = <<>>
  /\ fullnode_nodes = <<>>
  /\ issued = EmptyBag
  /\ completed = {}
  /\ attempts = [i \in 0..(params.num_validators - 1) |-> 0]
  /\ store = [i \in 0..(params.num_validators - 1) |-> {}]
  /\ rootKeyCalls = EmptyBag
  /\ glog = <<>>
  /\ gpending = FALSE
  /\ gi = 0
  /\ genesisFile = Leftover
  /\ artifact = NoFile
  /\ nodeFiles = {}
  /\ instances = [validators |-> <<>>, lsrs |-> <<>>, vaults |-> <<>>,
                  fullnodes |-> <<>>]
  /\ pipeline = "idle"

\* ------------------------------------------------------------ task states
InFlight == {"alloc", "wipe", "spawn", "running", "sleeping", "put"}
Ready(n) == [k \in 1..n |-> "ready"]
\* The lowest-index future not yet polled: try_join_all polls in order.
IsNextReady(k) ==
  /\ k \in DOMAIN tasks
  /\ tasks[k] = "ready"
  /\ \A j \in 1..(k - 1) : tasks[j] # "ready"
\* Mutation of AllOk: the join resolves as soon as one future is done.
SomeOk == \E k \in DOMAIN tasks : tasks[k] = "ok"
AllOk == \A k \in DOMAIN tasks : tasks[k] = "ok"

\* try_join_all returns the first Err and drops the futures still pending.
\* A closure already handed to spawn_blocking is detached: nothing awaits it,
\* and what it does after the run has returned is not part of the run.
DropPending(ts, k) ==
  [j \in DOMAIN ts |->
     IF j = k THEN "err"
     ELSE IF ts[j] = "running" THEN "detached"
     ELSE IF ts[j] \in InFlight THEN "dropped"
     ELSE ts[j]]

\* The run returns Err(e): every `?` up to setup_cluster's caller.
Abort(e) ==
  /\ result' = ReturnErr(e)
  /\ pc' = "failed"

\* ---------------------------------------------------------- setup_cluster
\* Mutation of InstanceCount: one extra instance per validator for any backend.
InstanceCountOneTier ==
  LET base == N + (F * N)
  IN IF enable_lsr THEN base + N ELSE base

InstanceCount ==
  LET base == N + (F * N)
  IN IF enable_lsr
     THEN IF params.lsr_backend = "vault" THEN base + N * 2 ELSE base + N
     ELSE base

\* Mutation of Cleanup: the run goes on when the scheduler reset has failed.
CleanupIgnoreError ==
  /\ pc = "cleanup"
  /\ issued' = Issue(issued, Call("cleanup", NoNode, NoArg))
  /\ pc' = "get_workspace"
  /\ \E ok \in BOOLEAN :
       completed' = IF ok THEN completed \cup {Call("cleanup", NoNode, NoArg)}
                    ELSE completed
  /\ UNCHANGED <<params, result, instance_count, tasks, vault_nodes, lsrs_nodes,
                 validator_nodes, fullnode_nodes, attempts, store, rootKeyCalls,
                 glog, gpending, gi, genesisFile, artifact, nodeFiles, instances, pipeline>>

Cleanup ==
  /\ pc = "cleanup"
  /\ issued' = Issue(issued, Call("cleanup", NoNode, NoArg))
  /\ \E ok \in BOOLEAN :
       IF ok
       THEN /\ pc' = "get_workspace"
            /\ completed' = completed \cup {Call("cleanup", NoNode, NoArg)}
            /\ UNCHANGED result
       ELSE /\ Abort(Wrap("cleanup on startup failed", Err("cleanup", NoNode)))
            /\ UNCHANGED completed
  /\ UNCHANGED <<params, instance_count, tasks, vault_nodes, lsrs_nodes,
                 validator_nodes, fullnode_nodes, attempts, store, rootKeyCalls,
                 glog, gpending, gi, genesisFile, artifact, nodeFiles, instances, pipeline>>

\* get_workspace().await.expect(..), then the instance count.
\* Mutation of AfterWorkspace: a clean run scales up without draining first.
AfterWorkspaceNoDrain == IF params.clean_data THEN "scale_up" ELSE "enter"
AfterWorkspace == IF params.clean_data THEN "scale_down" ELSE "enter"

GetWorkspace ==
  /\ pc = "get_workspace"
  /\ \E ok \in BOOLEAN :
       IF ok
       THEN /\ pc' = AfterWorkspace
            /\ instance_count' = InstanceCount
            /\ UNCHANGED result
       ELSE /\ pc' = "panicked"
            /\ result' = Panicked("Failed to get workspace")
            /\ UNCHANGED instance_count
  /\ UNCHANGED <<params, tasks, vault_nodes, lsrs_nodes, validator_nodes,
                 fullnode_nodes, issued, completed, attempts, store,
                 rootKeyCalls, glog, gpending, gi, genesisFile, artifact,
                 nodeFiles, instances, pipeline>>

\* aws::set_asg_size(desired, buffer, asg, wait_for_completion, scaling_down)
ScaleCall(down) ==
  IF down THEN Call("set_asg_size", NoNode, Arg(NoIp, NoIp, 0, "wait,scaling_down"))
  ELSE Call("set_asg_size", NoNode, Arg(NoIp, NoIp, instance_count, "wait"))

Scale(down) ==
  /\ pc = (IF down THEN "scale_down" ELSE "scale_up")
  /\ issued' = Issue(issued, ScaleCall(down))
  /\ \E ok \in BOOLEAN :
       IF ok
       THEN /\ pc' = (IF down THEN "scale_up" ELSE "enter")
            /\ completed' = completed \cup {ScaleCall(down)}
            /\ UNCHANGED result
       ELSE /\ Abort(Wrap(IF down THEN "scale down failed" ELSE "scale up failed",
                          Err("set_asg_size", NoNode)))
            /\ UNCHANGED completed
  /\ UNCHANGED <<params, instance_count, tasks, vault_nodes, lsrs_nodes,
                 validator_nodes, fullnode_nodes, attempts, store, rootKeyCalls,
                 glog, gpending, gi, genesisFile, artifact, nodeFiles, instances, pipeline>>

\* --------------------------------------- spawn_validator_and_fullnode_set
\* Mutation of NextPc: the validator spawn join awaited right after the
\* allocations, ahead of the secret-tier initialization and the genesis.
NextPcSpawnFirst(p) ==
  CASE p = "enter" ->
         IF enable_lsr
         THEN IF params.lsr_backend = "vault" THEN "alloc_vault" ELSE "alloc_lsr"
         ELSE "spawn_lsr"
    [] p = "alloc_vault" -> "alloc_lsr"
    [] p = "alloc_lsr" -> "spawn_lsr"
    [] p = "spawn_lsr" -> "spawn_vault"
    [] p = "spawn_vault" -> "alloc_validator"
    [] p = "alloc_validator" -> "alloc_fullnode"
    [] p = "alloc_fullnode" -> "spawn_validator"
    [] p = "spawn_validator" ->
         IF vault_nodes # <<>> THEN "init_vault" ELSE "spawn_fullnode"
    [] p = "init_vault" -> "write_layout"
    [] p = "distribute" -> "spawn_fullnode"
    [] p = "spawn_fullnode" -> "done"

\* Mutation of NextPc: the signing-proxy tier is set up whatever the flag.
NextPcAlwaysLsr(p) ==
  CASE p = "enter" -> "alloc_lsr"
    [] p = "alloc_vault" -> "alloc_lsr"
    [] p = "alloc_lsr" -> "spawn_lsr"
    [] p = "spawn_lsr" -> "spawn_vault"
    [] p = "spawn_vault" -> "alloc_validator"
    [] p = "alloc_validator" -> "alloc_fullnode"
    [] p = "alloc_fullnode" ->
         IF vault_nodes # <<>> THEN "init_vault" ELSE "spawn_validator"
    [] p = "init_vault" -> "write_layout"
    [] p = "distribute" -> "spawn_validator"
    [] p = "spawn_validator" -> "spawn_fullnode"
    [] p = "spawn_fullnode" -> "done"

\* Mutation of NextPc: the fullnode spawns are joined ahead of the validator
\* spawns.
NextPcFullnodesFirst(p) ==
  CASE p = "enter" ->
         IF enable_lsr
         THEN IF params.lsr_backend = "vault" THEN "alloc_vault" ELSE "alloc_lsr"
         ELSE "spawn_lsr"
    [] p = "alloc_vault" -> "alloc_lsr"
    [] p = "alloc_lsr" -> "spawn_lsr"
    [] p = "spawn_lsr" -> "spawn_vault"
    [] p = "spawn_vault" -> "alloc_validator"
    [] p = "alloc_validator" -> "alloc_fullnode"
    [] p = "alloc_fullnode" ->
         IF vault_nodes # <<>> THEN "init_vault" ELSE "spawn_fullnode"
    [] p = "init_vault" -> "write_layout"
    [] p = "distribute" -> "spawn_fullnode"
    [] p = "spawn_fullnode" -> "spawn_validator"
    [] p = "spawn_validator" -> "done"

\* Control flow between the awaited joins, in source order.
NextPc(p) ==
  CASE p = "enter" ->
         IF enable_lsr
         THEN IF params.lsr_backend = "vault" THEN "alloc_vault" ELSE "alloc_lsr"
         ELSE "spawn_lsr"
    [] p = "alloc_vault" -> "alloc_lsr"
    [] p = "alloc_lsr" -> "spawn_lsr"
    [] p = "spawn_lsr" -> "spawn_vault"
    [] p = "spawn_vault" -> "alloc_validator"
    [] p = "alloc_validator" -> "alloc_fullnode"
    [] p = "alloc_fullnode" ->
         IF vault_nodes # <<>> THEN "init_vault" ELSE "spawn_validator"
    [] p = "init_vault" -> "write_layout"
    [] p = "distribute" -> "spawn_validator"
    [] p = "spawn_validator" -> "spawn_fullnode"
    [] p = "spawn_fullnode" -> "done"

\* Mutation of TaskCountOf: the genesis file is copied to one validator only.
TaskCountOfOneCopy(p, vaults, lsrs, validators) ==
  CASE p \in {"alloc_vault", "alloc_lsr", "alloc_validator", "spawn_validator"} -> N
    [] p \in {"alloc_fullnode", "spawn_fullnode"} -> N * F
    [] p = "spawn_lsr" -> Len(lsrs)
    [] p \in {"spawn_vault", "init_vault"} -> Len(vaults)
    [] p = "distribute" -> 1
    [] OTHER -> 0

\* Number of futures handed to the try_join_all awaited at p.
TaskCountOf(p, vaults, lsrs, validators) ==
  CASE p \in {"alloc_vault", "alloc_lsr", "alloc_validator", "spawn_validator"} -> N
    [] p \in {"alloc_fullnode", "spawn_fullnode"} -> N * F
    [] p = "spawn_lsr" -> Len(lsrs)
    [] p \in {"spawn_vault", "init_vault"} -> Len(vaults)
    [] p = "distribute" -> Len(validators)
    [] OTHER -> 0

TaskCount(p) == TaskCountOf(p, vault_nodes, lsrs_nodes, validator_nodes)

AllocPhases == {"alloc_vault", "alloc_lsr", "alloc_validator", "alloc_fullnode"}
SpawnPhases == {"spawn_lsr", "spawn_vault", "spawn_validator", "spawn_fullnode"}

\* Pod name the k-th future (0-based) of an allocation join asks for.
AllocName(p, k) ==
  CASE p = "alloc_vault" -> vault_pod_name(k)
    [] p = "alloc_lsr" -> lsr_pod_name(k)
    [] p = "alloc_validator" -> validator_pod_name(k)
    [] p = "alloc_fullnode" -> fullnode_pod_name(k \div F, k % F)

AllocCall(p, k) == Call("allocate_node", AllocName(p, k), NoArg)

Enter ==
  /\ pc = "enter"
  /\ pc' = NextPc("enter")
  /\ tasks' = Ready(TaskCount(NextPc("enter")))
  /\ UNCHANGED <<params, result, instance_count, vault_nodes, lsrs_nodes,
                 validator_nodes, fullnode_nodes, issued, completed, attempts,
                 store, rootKeyCalls, glog, gpending, gi, genesisFile, artifact,
                 nodeFiles, instances, pipeline>>

AllocStart(k) ==
  /\ pc \in AllocPhases
  /\ IsNextReady(k)
  /\ tasks' = [tasks EXCEPT ![k] = "alloc"]
  /\ issued' = Issue(issued, AllocCall(pc, k - 1))
  /\ UNCHANGED <<params, pc, result, instance_count, vault_nodes, lsrs_nodes,
                 validator_nodes, fullnode_nodes, completed, attempts, store,
                 rootKeyCalls, glog, gpending, gi, genesisFile, artifact,
                 nodeFiles, instances, pipeline>>

\* Mutation of AllocReturn: a failed allocation is recorded but not propagated.
AllocReturnNoAbort(k) ==
  /\ pc \in AllocPhases
  /\ k \in DOMAIN tasks
  /\ tasks[k] = "alloc"
  /\ \E ok \in BOOLEAN :
       IF ok
       THEN /\ tasks' = [tasks EXCEPT ![k] = "ok"]
            /\ completed' = completed \cup {AllocCall(pc, k - 1)}
       ELSE /\ tasks' = [tasks EXCEPT ![k] = "err"]
            /\ UNCHANGED completed
  /\ UNCHANGED <<params, pc, result, instance_count, vault_nodes, lsrs_nodes,
                 validator_nodes, fullnode_nodes, issued, attempts, store,
                 rootKeyCalls, glog, gpending, gi, genesisFile, artifact,
                 nodeFiles, instances, pipeline>>

AllocReturn(k) ==
  /\ pc \in AllocPhases
  /\ k \in DOMAIN tasks
  /\ tasks[k] = "alloc"
  /\ \E ok \in BOOLEAN :
       IF ok
       THEN /\ tasks' = [tasks EXCEPT ![k] = "ok"]
            /\ completed' = completed \cup {AllocCall(pc, k - 1)}
            /\ UNCHANGED <<pc, result>>
       ELSE /\ tasks' = DropPending(tasks, k)
            /\ Abort(Wrap("Failed to spawn_validator_and_fullnode_set",
                          Err("allocate_node", AllocName(pc, k - 1))))
            /\ UNCHANGED completed
  /\ UNCHANGED <<params, instance_count, vault_nodes, lsrs_nodes,
                 validator_nodes, fullnode_nodes, issued, attempts, store,
                 rootKeyCalls, glog, gpending, gi, genesisFile, artifact,
                 nodeFiles, instances, pipeline>>

\* The join of an allocation phase resolves to the vector of handles.
Handles(p) == [k \in 1..TaskCount(p) |-> KubeNode(AllocName(p, k - 1))]

AllocJoin ==
  /\ pc \in AllocPhases
  /\ AllOk
  /\ vault_nodes' = IF pc = "alloc_vault" THEN Handles(pc) ELSE vault_nodes
  /\ lsrs_nodes' = IF pc = "alloc_lsr" THEN Handles(pc) ELSE lsrs_nodes
  /\ validator_nodes' = IF pc = "alloc_validator" THEN Handles(pc) ELSE validator_nodes
  /\ fullnode_nodes' = IF pc = "alloc_fullnode" THEN Handles(pc) ELSE fullnode_nodes
  /\ pc' = NextPc(pc)
  /\ tasks' = Ready(TaskCountOf(pc', vault_nodes', lsrs_nodes', validator_nodes'))
  /\ UNCHANGED <<params, result, instance_count, issued, completed, attempts,
                 store, rootKeyCalls, glog, gpending, gi, genesisFile, artifact,
                 nodeFiles, instances, pipeline>>

\* Mutation of SpawnCall: every validator is seeded with its own address.
SpawnCallSeedSelf(p, k) ==
  CASE p = "spawn_vault" ->
         Call("spawn_new_instance", vault_pod_name(k), NoArg)
    [] p = "spawn_lsr" ->
         Call("spawn_new_instance", lsr_pod_name(k),
              Arg(NoIp, NoIp, N, params.lsr_backend))
    [] p = "spawn_validator" ->
         Call("spawn_new_instance", validator_pod_name(k),
              Arg(At(validator_nodes, k).internal_ip,
                  IF enable_lsr THEN At(lsrs_nodes, k).internal_ip ELSE NoIp,
                  N, ""))
    [] p = "spawn_fullnode" ->
         Call("spawn_new_instance", fullnode_pod_name(k \div F, k % F),
              Arg(At(validator_nodes, k \div F).internal_ip, NoIp, N, ""))

\* The InstanceConfig the k-th future (0-based) of a spawn join is built with,
\* as the call spawn_new_instance receives it.
SpawnCall(p, k) ==
  CASE p = "spawn_vault" ->
         Call("spawn_new_instance", vault_pod_name(k), NoArg)
    [] p = "spawn_lsr" ->
         Call("spawn_new_instance", lsr_pod_name(k),
              Arg(NoIp, NoIp, N, params.lsr_backend))
    [] p = "spawn_validator" ->
         Call("spawn_new_instance", validator_pod_name(k),
              Arg(At(validator_nodes, 0).internal_ip,
                  IF enable_lsr THEN At(lsrs_nodes, k).internal_ip ELSE NoIp,
                  N, ""))
    [] p = "spawn_fullnode" ->
         Call("spawn_new_instance", fullnode_pod_name(k \div F, k % F),
              Arg(At(validator_nodes, k \div F).internal_ip, NoIp, N, ""))

\* The node whose data the k-th future wipes on a clean run.
WipeName(p, k) ==
  CASE p = "spawn_vault" -> At(vault_nodes, k).name
    [] p = "spawn_lsr" -> At(lsrs_nodes, k).name
    [] p = "spawn_validator" -> At(validator_nodes, k).name
    [] p = "spawn_fullnode" ->
         At(fullnode_nodes, (k \div F) * F + (k % F)).name

WipeCall(p, k) == Call("clean_data", WipeName(p, k), NoArg)

\* First poll of a spawn future: clean_data on a clean run, else the spawn.
\* Mutation of SpawnStart: the instance is spawned without wiping the node.
SpawnStartNoWipe(k) ==
  /\ pc \in SpawnPhases
  /\ IsNextReady(k)
  /\ tasks' = [tasks EXCEPT ![k] = "spawn"]
  /\ issued' = Issue(issued, SpawnCall(pc, k - 1))
  /\ UNCHANGED <<params, pc, result, instance_count, vault_nodes, lsrs_nodes,
                 validator_nodes, fullnode_nodes, completed, attempts, store,
                 rootKeyCalls, glog, gpending, gi, genesisFile, artifact,
                 nodeFiles, instances, pipeline>>

SpawnStart(k) ==
  /\ pc \in SpawnPhases
  /\ IsNextReady(k)
  /\ IF params.clean_data
     THEN /\ tasks' = [tasks EXCEPT ![k] = "wipe"]
          /\ issued' = Issue(issued, WipeCall(pc, k - 1))
     ELSE /\ tasks' = [tasks EXCEPT ![k] = "spawn"]
          /\ issued' = Issue(issued, SpawnCall(pc, k - 1))
  /\ UNCHANGED <<params, pc, result, instance_count, vault_nodes, lsrs_nodes,
                 validator_nodes, fullnode_nodes, completed, attempts, store,
                 rootKeyCalls, glog, gpending, gi, genesisFile, artifact,
                 nodeFiles, instances, pipeline>>

\* Mutation of WipeReturn: a failed wipe is ignored and the instance spawned.
WipeReturnIgnore(k) ==
  /\ pc \in SpawnPhases
  /\ k \in DOMAIN tasks
  /\ tasks[k] = "wipe"
  /\ tasks' = [tasks EXCEPT ![k] = "spawn"]
  /\ issued' = Issue(issued, SpawnCall(pc, k - 1))
  /\ \E ok \in BOOLEAN :
       completed' = IF ok THEN completed \cup {WipeCall(pc, k - 1)} ELSE completed
  /\ UNCHANGED <<params, pc, result, instance_count, vault_nodes, lsrs_nodes,
                 validator_nodes, fullnode_nodes, attempts, store, rootKeyCalls,
                 glog, gpending, gi, genesisFile, artifact, nodeFiles, instances, pipeline>>

WipeReturn(k) ==
  /\ pc \in SpawnPhases
  /\ k \in DOMAIN tasks
  /\ tasks[k] = "wipe"
  /\ \E ok \in BOOLEAN :
       IF ok
       THEN /\ tasks' = [tasks EXCEPT ![k] = "spawn"]
            /\ completed' = completed \cup {WipeCall(pc, k - 1)}
            /\ issued' = Issue(issued, SpawnCall(pc, k - 1))
            /\ UNCHANGED <<pc, result>>
       ELSE /\ tasks' = DropPending(tasks, k)
            /\ Abort(Wrap("Failed to spawn_validator_and_fullnode_set",
                          Err("clean_data", WipeName(pc, k - 1))))
            /\ UNCHANGED <<completed, issued>>
  /\ UNCHANGED <<params, instance_count, vault_nodes, lsrs_nodes,
                 validator_nodes, fullnode_nodes, attempts, store, rootKeyCalls,
                 glog, gpending, gi, genesisFile, artifact, nodeFiles, instances, pipeline>>

\* Mutation of SpawnReturn: a failed spawn is recorded but not propagated.
SpawnReturnNoAbort(k) ==
  /\ pc \in SpawnPhases
  /\ k \in DOMAIN tasks
  /\ tasks[k] = "spawn"
  /\ \E ok \in BOOLEAN :
       IF ok
       THEN /\ tasks' = [tasks EXCEPT ![k] = "ok"]
            /\ completed' = completed \cup {SpawnCall(pc, k - 1)}
       ELSE /\ tasks' = [tasks EXCEPT ![k] = "err"]
            /\ UNCHANGED completed
  /\ UNCHANGED <<params, pc, result, instance_count, vault_nodes, lsrs_nodes,
                 validator_nodes, fullnode_nodes, issued, attempts, store,
                 rootKeyCalls, glog, gpending, gi, genesisFile, artifact,
                 nodeFiles, instances, pipeline>>

SpawnReturn(k) ==
  /\ pc \in SpawnPhases
  /\ k \in DOMAIN tasks
  /\ tasks[k] = "spawn"
  /\ \E ok \in BOOLEAN :
       IF ok
       THEN /\ tasks' = [tasks EXCEPT ![k] = "ok"]
            /\ completed' = completed \cup {SpawnCall(pc, k - 1)}
            /\ UNCHANGED <<pc, result>>
       ELSE /\ tasks' = DropPending(tasks, k)
            /\ Abort(Wrap("Failed to spawn_validator_and_fullnode_set",
                          Err("spawn_new_instance", SpawnCall(pc, k - 1).node)))
            /\ UNCHANGED completed
  /\ UNCHANGED <<params, instance_count, vault_nodes, lsrs_nodes,
                 validator_nodes, fullnode_nodes, issued, attempts, store,
                 rootKeyCalls, glog, gpending, gi, genesisFile, artifact,
                 nodeFiles, instances, pipeline>>

\* The join of a spawn phase resolves to the vector of instances.
Spawned(p) == [k \in 1..TaskCount(p) |-> SpawnCall(p, k - 1)]

SpawnJoin ==
  /\ pc \in SpawnPhases
  /\ AllOk
  /\ instances' =
       CASE pc = "spawn_lsr" -> [instances EXCEPT !.lsrs = Spawned(pc)]
         [] pc = "spawn_vault" -> [instances EXCEPT !.vaults = Spawned(pc)]
         [] pc = "spawn_validator" -> [instances EXCEPT !.validators = Spawned(pc)]
         [] pc = "spawn_fullnode" -> [instances EXCEPT !.fullnodes = Spawned(pc)]
  /\ pc' = NextPc(pc)
  /\ tasks' = Ready(TaskCount(pc'))
  /\ result' = IF pc' = "done" THEN ReturnOk ELSE result
  /\ UNCHANGED <<params, instance_count, vault_nodes, lsrs_nodes,
                 validator_nodes, fullnode_nodes, issued, completed, attempts,
                 store, rootKeyCalls, glog, gpending, gi, genesisFile, artifact,
                 nodeFiles, pipeline>>

\* ------------------------------------------------------- initialize_vault
\* format!("{}__{}", namespace, key)
KeyName(ns, key) == [ns |-> ns, key |-> key]
libra_root_key == KeyName(PodName(LIBRA_ROOT_NAME, 0, 0), LIBRA_ROOT_KEY)

\* Mutation of Keys: the root key is created on every index.
KeysRootEverywhere(validator_index) ==
  <<libra_root_key>> \o
  [m \in 1..6 |->
     KeyName(validator_pod_name(validator_index),
             <<OWNER_KEY, OPERATOR_KEY, CONSENSUS_KEY, EXECUTION_KEY,
               VALIDATOR_NETWORK_KEY, FULLNODE_NETWORK_KEY>>[m])]

\* The create_key calls of one invocation, in program order.
Keys(validator_index) ==
  (IF validator_index = 0 THEN <<libra_root_key>> ELSE <<>>) \o
  [m \in 1..6 |->
     KeyName(validator_pod_name(validator_index),
             <<OWNER_KEY, OPERATOR_KEY, CONSENSUS_KEY, EXECUTION_KEY,
               VALIDATOR_NETWORK_KEY, FULLNODE_NETWORK_KEY>>[m])]

\* One run of the blocking closure on index i in which the first j create_key
\* calls return Ok and the next one (if any) returns Err.
KeysIssued(i, j) ==
  {Keys(i)[m] : m \in 1..(IF j < Len(Keys(i)) THEN j + 1 ELSE j)}
KeysCreated(i, j) == {Keys(i)[m] : m \in 1..j}

RunClosure(i, j) ==
  /\ store' = [store EXCEPT ![i] = @ \cup KeysCreated(i, j)]
  /\ rootKeyCalls' =
       IF libra_root_key \in KeysIssued(i, j)
       THEN Issue(rootKeyCalls, i) ELSE rootKeyCalls

\* libra_retrier::retry_async over fixed_retry_strategy(5000, 15): after the
\* a-th failed invocation another one follows while a delay is left.
RetryAllowed(a) == a <= MaxRetries

InitStart(k) ==
  /\ pc = "init_vault"
  /\ IsNextReady(k)
  /\ tasks' = [tasks EXCEPT ![k] = "running"]
  /\ attempts' = [attempts EXCEPT ![k - 1] = @ + 1]
  /\ UNCHANGED <<params, pc, result, instance_count, vault_nodes, lsrs_nodes,
                 validator_nodes, fullnode_nodes, issued, completed, store,
                 rootKeyCalls, glog, gpending, gi, genesisFile, artifact,
                 nodeFiles, instances, pipeline>>

\* Mutation of AttemptReturn: a failed invocation is always retried.
AttemptReturnAlwaysRetry(k) ==
  /\ pc = "init_vault"
  /\ k \in DOMAIN tasks
  /\ tasks[k] = "running"
  /\ \E j \in 0..Len(Keys(k - 1)) :
       /\ RunClosure(k - 1, j)
       /\ tasks' = [tasks EXCEPT ![k] = IF j = Len(Keys(k - 1)) THEN "ok"
                                        ELSE "sleeping"]
  /\ UNCHANGED <<params, pc, result, instance_count, vault_nodes, lsrs_nodes,
                 validator_nodes, fullnode_nodes, issued, completed, attempts,
                 glog, gpending, gi, genesisFile, artifact, nodeFiles, instances,
                 pipeline>>

AttemptReturn(k) ==
  /\ pc = "init_vault"
  /\ k \in DOMAIN tasks
  /\ tasks[k] = "running"
  /\ \E j \in 0..Len(Keys(k - 1)) :
       /\ RunClosure(k - 1, j)
       /\ IF j = Len(Keys(k - 1))
          THEN /\ tasks' = [tasks EXCEPT ![k] = "ok"]
               /\ UNCHANGED <<pc, result>>
          ELSE IF RetryAllowed(attempts[k - 1])
          THEN /\ tasks' = [tasks EXCEPT ![k] = "sleeping"]
               /\ UNCHANGED <<pc, result>>
          ELSE /\ tasks' = DropPending(tasks, k)
               /\ Abort(Wrap("Failed to spawn_validator_and_fullnode_set",
                         Wrap(Keys(k - 1)[j + 1].key,
                          Wrap("Failed to create",
                               Err("create_key", At(vault_nodes, k - 1).name)))))
  /\ UNCHANGED <<params, instance_count, vault_nodes, lsrs_nodes,
                 validator_nodes, fullnode_nodes, issued, completed, attempts,
                 glog, gpending, gi, genesisFile, artifact, nodeFiles, instances, pipeline>>

\* delay_for(delay) elapsed: the next invocation.
RetryWake(k) ==
  /\ pc = "init_vault"
  /\ k \in DOMAIN tasks
  /\ tasks[k] = "sleeping"
  /\ tasks' = [tasks EXCEPT ![k] = "running"]
  /\ attempts' = [attempts EXCEPT ![k - 1] = @ + 1]
  /\ UNCHANGED <<params, pc, result, instance_count, vault_nodes, lsrs_nodes,
                 validator_nodes, fullnode_nodes, issued, completed, store,
                 rootKeyCalls, glog, gpending, gi, genesisFile, artifact,
                 nodeFiles, instances, pipeline>>

InitJoin ==
  /\ pc = "init_vault"
  /\ AllOk
  /\ pc' = NextPc(pc)
  /\ tasks' = <<>>
  /\ pipeline' = "running"
  /\ UNCHANGED <<params, result, instance_count, vault_nodes, lsrs_nodes,
                 validator_nodes, fullnode_nodes, issued, completed, attempts,
                 store, rootKeyCalls, glog, gpending, gi, genesisFile, artifact,
                 nodeFiles, instances>>

\* ------------------------------------------------------- generate_genesis
LocalSteps == {"write_layout", "write_token"}
LoopSteps == {"owner_key", "operator_key", "validator_config", "set_operator"}
RemoteSteps == {"set_layout", "libra_root_key", "genesis",
                "create_and_insert_waypoint", "extract_private_key"} \cup LoopSteps

Url(ip) == <<"http", ip, VAULT_PORT>>
Addr(ip) == <<"/ip4", ip, 6180>>

\* A genesis-tool call: the operation, the identity it names, the secret
\* store it addresses and the two endpoints of validator_config.
GCall(op, pod, url, vaddr, faddr) ==
  [op |-> op, pod |-> pod, url |-> url, vaddr |-> vaddr, faddr |-> faddr]

\* Mutation of GenesisCall: the loop addresses secret node 0 at every index.
GenesisCallFirstNode(p, i) ==
  CASE p \in {"set_layout", "genesis"} ->
         GCall(p, NoNode, Url(NoIp), Addr(NoIp), Addr(NoIp))
    [] p \in {"libra_root_key", "extract_private_key"} ->
         GCall(p, PodName(LIBRA_ROOT_NAME, 0, 0),
               Url(At(vault_nodes, 0).internal_ip), Addr(NoIp), Addr(NoIp))
    [] p \in {"owner_key", "operator_key", "create_and_insert_waypoint"} ->
         GCall(p, validator_pod_name(i),
               Url(At(vault_nodes, 0).internal_ip), Addr(NoIp), Addr(NoIp))
    [] p = "validator_config" ->
         GCall(p, validator_pod_name(i), Url(At(vault_nodes, 0).internal_ip),
               Addr(At(validator_nodes, i).internal_ip),
               Addr(At(fullnode_nodes, i).internal_ip))
    [] p = "set_operator" ->
         GCall(p, validator_pod_name(i), Url(NoIp), Addr(NoIp), Addr(NoIp))

\* The call generate_genesis makes at step p of loop index i.
GenesisCall(p, i) ==
  CASE p = "set_layout" ->
         GCall(p, NoNode, Url(NoIp), Addr(NoIp), Addr(NoIp))
    [] p \in {"libra_root_key", "extract_private_key"} ->
         GCall(p, PodName(LIBRA_ROOT_NAME, 0, 0),
               Url(At(vault_nodes, 0).internal_ip), Addr(NoIp), Addr(NoIp))
    [] p \in {"owner_key", "operator_key", "create_and_insert_waypoint"} ->
         GCall(p, validator_pod_name(i),
               Url(At(vault_nodes, i).internal_ip), Addr(NoIp), Addr(NoIp))
    [] p = "validator_config" ->
         GCall(p, validator_pod_name(i), Url(At(vault_nodes, i).internal_ip),
               Addr(At(validator_nodes, i).internal_ip),
               Addr(At(fullnode_nodes, i).internal_ip))
    [] p = "set_operator" ->
         GCall(p, validator_pod_name(i), Url(NoIp), Addr(NoIp), Addr(NoIp))
    [] p = "genesis" ->
         GCall(p, NoNode, Url(NoIp), Addr(NoIp), Addr(NoIp))

\* Mutation of GenesisNext: the genesis is finalized before the registrations.
GenesisNextFinalizeFirst(p, i) ==
  CASE p = "write_layout" -> <<"write_token", 0>>
    [] p = "write_token" -> <<"set_layout", 0>>
    [] p = "set_layout" -> <<"libra_root_key", 0>>
    [] p = "libra_root_key" -> <<"genesis", 0>>
    [] p = "genesis" ->
         IF Len(vault_nodes) > 0 THEN <<"owner_key", 0>>
         ELSE <<"extract_private_key", 0>>
    [] p = "owner_key" -> <<"operator_key", i>>
    [] p = "operator_key" -> <<"validator_config", i>>
    [] p = "validator_config" -> <<"set_operator", i>>
    [] p = "set_operator" ->
         IF i + 1 < Len(vault_nodes) THEN <<"owner_key", i + 1>>
         ELSE <<"create_and_insert_waypoint", 0>>
    [] p = "create_and_insert_waypoint" ->
         IF i + 1 < Len(vault_nodes) THEN <<"create_and_insert_waypoint", i + 1>>
         ELSE <<"extract_private_key", 0>>
    [] p = "extract_private_key" -> <<"distribute", 0>>

\* Where control goes after step p of loop index i returned Ok: <<step, index>>.
GenesisNext(p, i) ==
  CASE p = "write_layout" -> <<"write_token", 0>>
    [] p = "write_token" -> <<"set_layout", 0>>
    [] p = "set_layout" -> <<"libra_root_key", 0>>
    [] p = "libra_root_key" ->
         IF Len(vault_nodes) > 0 THEN <<"owner_key", 0>> ELSE <<"genesis", 0>>
    [] p = "owner_key" -> <<"operator_key", i>>
    [] p = "operator_key" -> <<"validator_config", i>>
    [] p = "validator_config" -> <<"set_operator", i>>
    [] p = "set_operator" ->
         IF i + 1 < Len(vault_nodes) THEN <<"owner_key", i + 1>>
         ELSE <<"genesis", 0>>
    [] p = "genesis" ->
         IF Len(vault_nodes) > 0 THEN <<"create_and_insert_waypoint", 0>>
         ELSE <<"extract_private_key", 0>>
    [] p = "create_and_insert_waypoint" ->
         IF i + 1 < Len(vault_nodes) THEN <<"create_and_insert_waypoint", i + 1>>
         ELSE <<"extract_private_key", 0>>
    [] p = "extract_private_key" -> <<"distribute", 0>>

\* File::create / write! of the layout and token files.
LocalWrite ==
  /\ pc \in LocalSteps
  /\ \E ok \in BOOLEAN :
       IF ok
       THEN /\ pc' = GenesisNext(pc, gi)[1]
            /\ UNCHANGED <<result, pipeline>>
       ELSE /\ Abort(Wrap("Failed to spawn_validator_and_fullnode_set",
                          Wrap("Failed to create", Err(pc, NoNode))))
            /\ pipeline' = "failed"
  /\ UNCHANGED <<params, instance_count, tasks, vault_nodes, lsrs_nodes,
                 validator_nodes, fullnode_nodes, issued, completed, attempts,
                 store, rootKeyCalls, glog, gpending, gi, genesisFile, artifact,
                 nodeFiles, instances>>

\* validator_config indexes validator_nodes[i] and fullnode_nodes[i] and
\* parses both addresses with expect(): out of bounds or unparsable panics.
ConfigPanics(parsed) ==
  /\ pc = "validator_config"
  /\ \/ ~InBounds(validator_nodes, gi)
     \/ ~InBounds(fullnode_nodes, gi)
     \/ ~parsed

GenesisIssue ==
  /\ pc \in RemoteSteps
  /\ ~gpending
  /\ \E parsed \in BOOLEAN :
       IF ConfigPanics(parsed)
       THEN /\ pc' = "panicked"
            /\ result' = Panicked(IF parsed THEN "index out of bounds"
                                  ELSE "Failed to parse network address")
            /\ pipeline' = "failed"
            /\ UNCHANGED <<glog, gpending>>
       ELSE /\ glog' = Append(glog, GenesisCall(pc, gi))
            /\ gpending' = TRUE
            /\ UNCHANGED <<pc, result, pipeline>>
  /\ UNCHANGED <<params, instance_count, tasks, vault_nodes, lsrs_nodes,
                 validator_nodes, fullnode_nodes, issued, completed, attempts,
                 store, rootKeyCalls, gi, genesisFile, artifact, nodeFiles,
                 instances>>

GenesisReturn ==
  /\ pc \in RemoteSteps
  /\ gpending
  /\ gpending' = FALSE
  /\ \E ok \in BOOLEAN :
       IF ok
       THEN /\ pc' = GenesisNext(pc, gi)[1]
            /\ gi' = GenesisNext(pc, gi)[2]
            /\ tasks' = IF pc' = "distribute" THEN Ready(TaskCount(pc'))
                        ELSE tasks
            /\ IF pc = "genesis"
               THEN \E b \in Blobs : artifact' = b /\ genesisFile' = b
               ELSE UNCHANGED <<artifact, genesisFile>>
            /\ UNCHANGED <<result, pipeline>>
       ELSE /\ Abort(Wrap("Failed to spawn_validator_and_fullnode_set",
                          Wrap("Failed to", Err(pc, GenesisCall(pc, gi).pod))))
            /\ pipeline' = "failed"
            /\ UNCHANGED <<gi, tasks, artifact, genesisFile>>
  /\ UNCHANGED <<params, instance_count, vault_nodes, lsrs_nodes,
                 validator_nodes, fullnode_nodes, issued, completed, attempts,
                 store, rootKeyCalls, glog, nodeFiles, instances>>

\* Mutation of ReadGenesis: the bytes are read from a file Finalize did not write.
ReadGenesisElsewhere == {StaleBlob}

\* fs::read(GENESIS_PATH): the contents read, NoFile when the read fails.
ReadGenesis == IF genesisFile = Leftover THEN {NoFile, StaleBlob} ELSE {genesisFile}

\* The put_file of the k-th future (0-based) of the distribution join.
PutCallOf(k, bytes) ==
  Call("put_file", At(validator_nodes, k).name, Arg(NoIp, NoIp, 0, bytes))
PutCall(k) == PutCallOf(k, genesisFile)
PutFile(k) ==
  [node |-> At(validator_nodes, k).name, container |-> validator_pod_name(k),
   path |-> GENESIS_DEST, bytes |-> PutCall(k).arg.data]

\* First poll of a distribution future: fs::read(GENESIS_PATH), then put_file.
DistStart(k) ==
  /\ pc = "distribute"
  /\ IsNextReady(k)
  /\ \E bytes \in ReadGenesis :
       IF bytes = NoFile
       THEN /\ tasks' = DropPending(tasks, k)
            /\ Abort(Wrap("Failed to spawn_validator_and_fullnode_set",
                      Wrap("Failed to copy genesis.blob to validator nodes",
                       Wrap("Failed to read", Err("fs::read", NoNode)))))
            /\ pipeline' = "failed"
            /\ UNCHANGED <<issued, genesisFile>>
       ELSE /\ tasks' = [tasks EXCEPT ![k] = "put"]
            /\ genesisFile' = bytes
            /\ issued' = Issue(issued, PutCallOf(k - 1, bytes))
            /\ UNCHANGED <<pc, result, pipeline>>
  /\ UNCHANGED <<params, instance_count, vault_nodes, lsrs_nodes,
                 validator_nodes, fullnode_nodes, completed, attempts, store,
                 rootKeyCalls, glog, gpending, gi, artifact,
                 nodeFiles, instances>>

PutReturn(k) ==
  /\ pc = "distribute"
  /\ k \in DOMAIN tasks
  /\ tasks[k] = "put"
  /\ \E ok \in BOOLEAN :
       IF ok
       THEN /\ tasks' = [tasks EXCEPT ![k] = "ok"]
            /\ completed' = completed \cup {PutCall(k - 1)}
            /\ nodeFiles' = nodeFiles \cup {PutFile(k - 1)}
            /\ UNCHANGED <<pc, result, pipeline>>
       ELSE /\ tasks' = DropPending(tasks, k)
            /\ Abort(Wrap("Failed to spawn_validator_and_fullnode_set",
                      Wrap("Failed to copy genesis.blob to validator nodes",
                       Err("put_file", PutCall(k - 1).node))))
            /\ pipeline' = "failed"
            /\ UNCHANGED <<completed, nodeFiles>>
  /\ UNCHANGED <<params, instance_count, vault_nodes, lsrs_nodes,
                 validator_nodes, fullnode_nodes, issued, attempts, store,
                 rootKeyCalls, glog, gpending, gi, genesisFile, artifact,
                 instances>>

DistJoin ==
  /\ pc = "distribute"
  /\ AllOk
  /\ pc' = NextPc(pc)
  /\ pipeline' = "done"
  /\ tasks' = Ready(TaskCount(pc'))
  /\ UNCHANGED <<params, result, instance_count, vault_nodes, lsrs_nodes,
                 validator_nodes, fullnode_nodes, issued, completed, attempts,
                 store, rootKeyCalls, glog, gpending, gi, genesisFile, artifact,
                 nodeFiles, instances>>

\* -------------------------------------------------------------------- Next
TaskIds == 1..(MaxValidators * (MaxFullnodes + 1))

Next ==
  \/ Cleanup
  \/ GetWorkspace
  \/ Scale(TRUE)
  \/ Scale(FALSE)
  \/ Enter
  \/ \E k \in TaskIds : AllocStart(k)
  \/ \E k \in TaskIds : AllocReturn(k)
  \/ AllocJoin
  \/ \E k \in TaskIds : SpawnStart(k)
  \/ \E k \in TaskIds : WipeReturn(k)
  \/ \E k \in TaskIds : SpawnReturn(k)
  \/ SpawnJoin
  \/ \E k \in TaskIds : InitStart(k)
  \/ \E k \in TaskIds : AttemptReturn(k)
  \/ \E k \in TaskIds : RetryWake(k)
  \/ InitJoin
  \/ LocalWrite
  \/ GenesisIssue
  \/ GenesisReturn
  \/ \E k \in TaskIds : DistStart(k)
  \/ \E k \in TaskIds : PutReturn(k)
  \/ DistJoin

Spec == Init /\ [][Next]_vars

\* ================================================================ claims
IssuedCalls == BagToSet(issued)
SpawnIssued(role) ==
  \E c \in IssuedCalls : c.op = "spawn_new_instance" /\ c.node.role = role
PutIssued == \E c \in IssuedCalls : c.op = "put_file"
\* Validator node i holds a file put_file stored at the genesis destination.
Received(i) ==
  \E f \in nodeFiles : f.node = validator_pod_name(i) /\ f.path = GENESIS_DEST
Last(q) == q[Len(q)]
IsPrefix(a, b) == Len(a) <= Len(b) /\ \A m \in 1..Len(a) : a[m] = b[m]

\* The order of genesis-tool calls the specification gives for n validators,
\* as <<operation, validator index>> pairs.
RECURSIVE Registrations(_, _)
Registrations(i, n) ==
  IF i >= n THEN <<>>
  ELSE <<<<"owner_key", i>>, <<"operator_key", i>>, <<"validator_config", i>>,
         <<"set_operator", i>>>> \o Registrations(i + 1, n)
ExpectedOrder(n) ==
  <<<<"set_layout", 0>>, <<"libra_root_key", 0>>>> \o Registrations(0, n) \o
  <<<<"genesis", 0>>>> \o [i \in 1..n |-> <<"create_and_insert_waypoint", i - 1>>] \o
  <<<<"extract_private_key", 0>>>>
OrderOf(q) == [m \in 1..Len(q) |-> <<q[m].op, q[m].pod.idx>>]

\* C1: when the genesis pipeline is executed, it has completed, distribution
\* to every validator node included, before any validator SpawnInstance is
\* issued; and after a failed pipeline no validator SpawnInstance is issued.
C1_GenesisBeforeValidators ==
  /\ (pipeline # "idle" /\ SpawnIssued("validator")) =>
       /\ pipeline = "done"
       /\ OrderOf(glog) = ExpectedOrder(N)
       /\ ~gpending
       /\ \A i \in 0..(N - 1) : Received(i)
  /\ pipeline = "failed" => ~SpawnIssued("validator")

C1_Witness ==
  /\ pipeline = "done"
  /\ N = 2
  /\ SpawnIssued("validator")

\* C2: the genesis-tool calls are issued in the order SetLayout,
\* RegisterRootKey, the registrations of all validators, Finalize, the
\* waypoints of all validators, ExtractPrivateKey; a call is issued only when
\* the one before it has returned; distribution starts only after all of
\* them; and the call that failed is the last one ever issued.
C2_PipelineSequential ==
  /\ IsPrefix(OrderOf(glog), ExpectedOrder(N))
  /\ gpending => (glog # <<>> /\ pc = Last(glog).op)
  /\ PutIssued => (OrderOf(glog) = ExpectedOrder(N) /\ ~gpending)
  /\ (pipeline = "failed" /\ result.err.op \in RemoteSteps) =>
       /\ glog # <<>>
       /\ Last(glog).op = result.err.op
       /\ Last(glog).pod = result.err.target
       /\ ~PutIssued

C2_Witness ==
  /\ N = 2
  /\ PutIssued
  /\ OrderOf(glog) = ExpectedOrder(2)

\* C3: for validators i < j, the four registration calls of i (owner key,
\* operator key, validator config, set operator, in that order, the first
\* three against secret node i) come before the first registration call of j.
C3_LoopByIndex ==
  \A b \in DOMAIN glog :
    glog[b].op \in LoopSteps =>
      /\ glog[b].pod.role = "validator"
      /\ glog[b].op # "set_operator" =>
           glog[b].url = Url(KubeNode(vault_pod_name(glog[b].pod.idx)).internal_ip)
      /\ \A i \in 0..(glog[b].pod.idx - 1) :
           \E a1, a2, a3, a4 \in 1..(b - 1) :
             /\ a1 < a2 /\ a2 < a3 /\ a3 < a4
             /\ glog[a1].op = "owner_key"
             /\ glog[a2].op = "operator_key"
             /\ glog[a3].op = "validator_config"
             /\ glog[a4].op = "set_operator"
             /\ \A a \in {a1, a2, a3, a4} : glog[a].pod = validator_pod_name(i)
             /\ \A a \in {a1, a2, a3} :
                  glog[a].url = Url(KubeNode(vault_pod_name(i)).internal_ip)

C3_Witness ==
  \E b \in DOMAIN glog :
    glog[b].op = "set_operator" /\ glog[b].pod = validator_pod_name(1)

\* The nodes a run with these parameters allocates, by role.
RoleCount(role) ==
  CASE role = "vault" ->
         IF enable_lsr /\ params.lsr_backend = VAULT_BACKEND THEN N ELSE 0
    [] role = "lsr" -> IF enable_lsr THEN N ELSE 0
    [] role = "validator" -> N
    [] role = "fullnode" -> N
RoleNames(role) ==
  {PodName(role, i, f) : i \in 0..(RoleCount(role) - 1),
                         f \in 0..(IF role = "fullnode" THEN F - 1 ELSE 0)}
AllRoles == {"vault", "lsr", "validator", "fullnode"}
Allocated(name) == Call("allocate_node", name, NoArg) \in completed
SpawnDone(name) ==
  \E c \in completed : c.op = "spawn_new_instance" /\ c.node = name
AllAllocated(roles) == \A r \in roles : \A n \in RoleNames(r) : Allocated(n)
AllSpawned(roles) == \A r \in roles : \A n \in RoleNames(r) : SpawnDone(n)
AnySpawnIssued == \E c \in IssuedCalls : c.op = "spawn_new_instance"
InitStarted == \E i \in DOMAIN attempts : attempts[i] > 0
InitDone == \A i \in 0..(RoleCount("vault") - 1) : Len(Keys(i)) = Cardinality(store[i])

\* Position of a scheduler call in the order in which the joins are awaited.
Rank(c) ==
  CASE c.op = "allocate_node" /\ c.node.role = "vault" -> 1
    [] c.op = "allocate_node" /\ c.node.role = "lsr" -> 2
    [] c.op \in {"clean_data", "spawn_new_instance"} /\ c.node.role = "lsr" -> 3
    [] c.op \in {"clean_data", "spawn_new_instance"} /\ c.node.role = "vault" -> 4
    [] c.op = "allocate_node" /\ c.node.role = "validator" -> 5
    [] c.op = "allocate_node" /\ c.node.role = "fullnode" -> 6
    [] c.op = "put_file" -> 8
    [] c.op \in {"clean_data", "spawn_new_instance"} /\ c.node.role = "validator" -> 9
    [] c.op \in {"clean_data", "spawn_new_instance"} /\ c.node.role = "fullnode" -> 10
    [] OTHER -> 0
PhaseDone(r) ==
  CASE r = 1 -> AllAllocated({"vault"})
    [] r = 2 -> AllAllocated({"lsr"})
    [] r = 3 -> AllSpawned({"lsr"})
    [] r = 4 -> AllSpawned({"vault"})
    [] r = 5 -> AllAllocated({"validator"})
    [] r = 6 -> AllAllocated({"fullnode"})
    [] r = 7 -> RoleCount("vault") > 0 => (InitStarted /\ InitDone)
    [] r = 8 -> RoleCount("vault") > 0 => pipeline = "done"
    [] r = 9 -> AllSpawned({"validator"})

\* C4 as stated: no SpawnInstance call of any role is issued before every
\* AllocateNode call of the run has completed.
C4_Original == AnySpawnIssued => AllAllocated(AllRoles)

\* C4 amended: a barrier separates the phases in the order the joins are
\* awaited (secret-store allocation, signing-proxy allocation, signing-proxy
\* spawning, secret-store spawning, validator allocation, fullnode allocation,
\* secret-tier initialization, genesis pipeline, validator spawning, fullnode
\* spawning): a call of a phase is issued only when every task of every
\* earlier phase has completed.  So validator and fullnode spawns follow all
\* allocations, secret-store and signing-proxy spawns follow their own.
C4_Barrier ==
  /\ \A c \in IssuedCalls : \A r \in 1..(Rank(c) - 1) : PhaseDone(r)
  /\ InitStarted => \A r \in 1..6 : PhaseDone(r)
  /\ pipeline # "idle" => \A r \in 1..7 : PhaseDone(r)
  /\ (SpawnIssued("validator") \/ SpawnIssued("fullnode")) => AllAllocated(AllRoles)
  /\ (SpawnIssued("vault") \/ SpawnIssued("lsr")) => AllAllocated({"vault", "lsr"})

C4_Witness ==
  /\ N = 2 /\ F = 2
  /\ RoleCount("vault") = 2
  /\ SpawnIssued("fullnode")

\* The allocation of fullnode f of validator v returned an error.
FullnodeAllocFailed(v, f) ==
  /\ v * F + f + 1 \in DOMAIN tasks
  /\ tasks[v * F + f + 1] = "err"
  /\ Call("allocate_node", fullnode_pod_name(v, f), NoArg) \in IssuedCalls
  /\ ~Allocated(fullnode_pod_name(v, f))
FullnodeIds == {vf \in (0..(N - 1)) \X (0..(F - 1)) : TRUE}
ReturnsAllocError(name) ==
  /\ result.kind = "err"
  /\ result.err.op = "allocate_node"
  /\ result.err.target = name

Dropped == {"dropped", "detached"}

RetryBudget == MaxRetries + 1
InitFailed == result.kind = "err" /\ result.err.op = "create_key"

\* C7: no secret node is initialized more often than the retry budget; a
\* successful invocation is the last for its node; and when the run fails in
\* the initialization, the error is that of an invocation that used up the
\* budget of its node, and neither the genesis pipeline nor a validator spawn
\* has been or will be executed.
C7_BoundedRetry ==
  /\ [](/\ \A i \in DOMAIN attempts : attempts[i] <= RetryBudget
        /\ InitFailed =>
             /\ \E i \in 0..(Len(vault_nodes) - 1) :
                  /\ At(vault_nodes, i).name = result.err.target
                  /\ tasks[i + 1] = "err"
                  /\ attempts[i] = RetryBudget
             /\ pipeline = "idle"
             /\ glog = <<>>
             /\ ~PutIssued
             /\ ~SpawnIssued("validator"))
  /\ [][\A i \in DOMAIN attempts :
          (attempts'[i] # attempts[i]) =>
             (pc = "init_vault" /\ tasks[i + 1] \in {"ready", "sleeping"})]_vars

C7_Witness ==
  /\ InitFailed
  /\ N = 2
  /\ \E i \in DOMAIN attempts : attempts[i] = RetryBudget /\ tasks[i + 1] = "err"
  /\ \E i \in DOMAIN attempts : tasks[i + 1] = "ok" /\ attempts[i] = RetryBudget

\* C8: the CreateKey call for the root key is issued by the initializer of
\* secret node 0 only, and once over the whole run, whatever the retries.
C8_RootKeyOnce ==
  /\ BagToSet(rootKeyCalls) \subseteq {0}
  /\ BagCardinality(rootKeyCalls) <= 1
  /\ (result.kind = "ok" /\ RoleCount("vault") > 0) =>
       BagCardinality(rootKeyCalls) = 1

\* The key slots one successful invocation on index i creates, per the
\* specification: six per-validator keys, and the root key on index 0.
ExpectedKeys(i) ==
  {KeyName(validator_pod_name(i), k) :
     k \in {"owner", "operator", "consensus", "execution",
            "validator_network", "fullnode_network"}}
  \cup (IF i = 0 THEN {KeyName(PodName("libra", 0, 0), "libra_root")} ELSE {})
InitSucceeded(i) ==
  \/ pc = "init_vault" /\ tasks[i + 1] = "ok"
  \/ pipeline # "idle" /\ i < Len(vault_nodes)

\* C9: once InitializeNode has succeeded on a secret node, after any number
\* of failed invocations, its store holds exactly the key slots of a single
\* successful invocation.
C9_RetryIdempotent ==
  \A i \in DOMAIN store :
    /\ InitSucceeded(i) => store[i] = ExpectedKeys(i)
    /\ store[i] \subseteq ExpectedKeys(i)

C9_Witness ==
  \E i \in DOMAIN store :
    /\ i > 0
    /\ pc = "init_vault"
    /\ tasks[i + 1] = "ok"
    /\ attempts[i] = 2
    /\ store[i] = ExpectedKeys(i)

\* Every validator node holds, at the genesis destination, the bytes Finalize
\* produced.
AllReceivedArtifact ==
  /\ artifact \in Blobs
  /\ \A i \in 0..(N - 1) :
       \E f \in nodeFiles :
         /\ f.node = validator_pod_name(i)
         /\ f.path = GENESIS_DEST
         /\ f.bytes = artifact
  /\ \A f \in nodeFiles : f.bytes = artifact

\* C10 as stated: after a successful run with the secret tier enabled every
\* validator node holds a copy of the artifact Finalize produced.
C10_Original == (result.kind = "ok" /\ enable_lsr) => AllReceivedArtifact

\* C10 amended: after a successful run with the secret tier enabled and the
\* vault backend, every validator node holds, at the fixed path, a copy of
\* the artifact Finalize produced, all copies identical; with another
\* backend no genesis is generated and nothing is distributed.
C10_Distribution ==
  /\ (result.kind = "ok" /\ enable_lsr /\ params.lsr_backend = VAULT_BACKEND) =>
       AllReceivedArtifact
  /\ (enable_lsr /\ params.lsr_backend # VAULT_BACKEND) =>
       (nodeFiles = {} /\ glog = <<>> /\ ~PutIssued)

C10_Witness ==
  /\ result.kind = "ok"
  /\ RoleCount("vault") = 2
  /\ AllReceivedArtifact

\* The count the specification requires for the topology.
RoleExtra ==
  IF ~enable_lsr THEN 0
  ELSE IF params.lsr_backend = VAULT_BACKEND THEN 2 * N ELSE N
RequiredInstanceCount == N + N * F + RoleExtra
ScaleIssued == {c \in IssuedCalls : c.op = "set_asg_size"}
PastWorkspace == pc \notin {"cleanup", "get_workspace", "panicked"}

\* C11: the instance count computed by setup_cluster is validators +
\* validators * fullnodesPerValidator + roleExtra, it is computed before any
\* pool-scaling request is issued, and the scale-up asks for that count.
C11_InstanceCount ==
  /\ (PastWorkspace /\ (pc = "failed" => Call("cleanup", NoNode, NoArg) \in completed)) =>
       instance_count = RequiredInstanceCount
  /\ \A c \in ScaleIssued :
       /\ instance_count = RequiredInstanceCount
       /\ c.arg.data = "wait" => c.arg.num = RequiredInstanceCount

C11_Witness ==
  /\ enable_lsr
  /\ params.lsr_backend = VAULT_BACKEND
  /\ N = 2
  /\ F = 2
  /\ \E c \in ScaleIssued : c.arg.data = "wait" /\ c.arg.num = 10

SecretRoles == {"vault", "lsr"}

\* C12: with the secret tier disabled the secret tier initializer and the
\* genesis pipeline are never invoked, no secret-store or signing-proxy node
\* is allocated, wiped or spawned, and every validator is spawned with no
\* signing-proxy address.
C12_SecretTierDisabled ==
  ~enable_lsr =>
    /\ \A i \in DOMAIN attempts : attempts[i] = 0 /\ store[i] = {}
    /\ rootKeyCalls = EmptyBag
    /\ glog = <<>>
    /\ pipeline = "idle"
    /\ ~PutIssued
    /\ nodeFiles = {}
    /\ vault_nodes = <<>>
    /\ lsrs_nodes = <<>>
    /\ instances.vaults = <<>>
    /\ instances.lsrs = <<>>
    /\ \A c \in IssuedCalls :
         /\ c.node.role \notin SecretRoles
         /\ c.op \notin {"create_key", "put_file"}
         /\ (c.op = "spawn_new_instance" /\ c.node.role = "validator") =>
              c.arg.lsr = NoIp

C12_Witness ==
  /\ ~enable_lsr
  /\ result.kind = "ok"
  /\ N = 2
  /\ \A i \in 0..1 : \E c \in completed :
       /\ c.op = "spawn_new_instance"
       /\ c.node = validator_pod_name(i)
       /\ c.arg.lsr = NoIp

CompleteCluster ==
  /\ Len(instances.validators) = N
  /\ Len(instances.fullnodes) = N * F
  /\ Len(instances.lsrs) = RoleCount("lsr")
  /\ Len(instances.vaults) = RoleCount("vault")
  /\ AllSpawned(AllRoles)

\* C13: a run ends either by returning a complete cluster after every phase
\* succeeded or by returning a single error; it never ends in an abort that
\* is not a returned error, and never returns a partial cluster.
C13_TwoOutcomes ==
  /\ result.kind \in {"running", "ok", "err"}
  /\ result.kind = "ok" => CompleteCluster

CleanupCall == Call("cleanup", NoNode, NoArg)
CleanupFailed == result.kind = "err" /\ result.err.op = "cleanup"
NothingButCleanup ==
  /\ IssuedCalls \subseteq {CleanupCall}
  /\ glog = <<>>
  /\ rootKeyCalls = EmptyBag
  /\ \A i \in DOMAIN attempts : attempts[i] = 0
  /\ nodeFiles = {}

\* C14: the scheduler cleanup is the first remote operation of every run,
\* and when it fails the run returns an error and no pool-scaling,
\* allocation, wipe, secret-store, genesis or spawn operation is ever issued.
C14_CleanupFirst ==
  /\ pc # "cleanup" => Count(issued, CleanupCall) = 1
  /\ CleanupCall \notin completed =>
       /\ NothingButCleanup
       /\ pc \in {"cleanup", "failed"}
  /\ (pc = "failed" /\ CleanupCall \notin completed) => CleanupFailed
  /\ CleanupFailed => (NothingButCleanup /\ pc = "failed")

C14_Witness ==
  /\ CleanupFailed
  /\ Count(issued, CleanupCall) = 1
  /\ params.clean_data
  /\ enable_lsr

AllocIssued == \E c \in IssuedCalls : c.op = "allocate_node"
ScaleFailed == result.kind = "err" /\ result.err.op = "set_asg_size"

\* C15: on a clean run the pool is scaled to zero, waiting for completion,
\* and only then scaled up to the required count, waiting again; a failure
\* of either call returns an error before any node allocation, and no
\* scale-up is issued after a failed scale-down.
C15_ScaleDownThenUp ==
  /\ \A down \in BOOLEAN : Count(issued, ScaleCall(down)) <= 1
  /\ \A c \in ScaleIssued :
       /\ params.clean_data
       /\ c \in {ScaleCall(TRUE), ScaleCall(FALSE)}
  /\ ScaleCall(FALSE) \in IssuedCalls =>
       (ScaleCall(TRUE) \in completed /\ ScaleCall(FALSE).arg.num = RequiredInstanceCount)
  /\ (params.clean_data /\ (AllocIssued \/ pc = "enter")) =>
       {ScaleCall(TRUE), ScaleCall(FALSE)} \subseteq completed
  /\ ScaleFailed =>
       /\ pc = "failed"
       /\ ~AllocIssued
       /\ tasks = <<>>
       /\ IssuedCalls \subseteq {CleanupCall, ScaleCall(TRUE), ScaleCall(FALSE)}
       /\ ScaleCall(FALSE) \notin completed
       /\ result.err.ctx = <<"scale down failed">> =>
            (ScaleCall(TRUE) \notin completed /\ ScaleCall(FALSE) \notin IssuedCalls)
  /\ (pc = "failed" /\ ScaleIssued # {} /\ ScaleCall(FALSE) \notin completed) => ScaleFailed

C15_Witness ==
  /\ ScaleFailed
  /\ result.err.ctx = <<"scale down failed">>
  /\ ScaleCall(TRUE) \in IssuedCalls

\* The issued calls of one operation, with their multiplicities.
OpBag(op) == [c \in {d \in IssuedCalls : d.op = op} |-> issued[c]]
OpCount(op) == BagCardinality(OpBag(op))
AllocatedNames(role) ==
  {c.node : c \in {d \in IssuedCalls : d.op = "allocate_node" /\ d.node.role = role}}
RemoteSuccess ==
  result.kind = "ok" /\ enable_lsr /\ params.lsr_backend = VAULT_BACKEND

\* C16: a successful run with N validators, F fullnodes per validator, the
\* secret tier enabled and the vault backend allocates exactly N secret-store,
\* N signing-proxy, N validator and N*F fullnode nodes, each name once, runs
\* the genesis pipeline exactly once, and makes exactly N copies of the
\* genesis artifact, one per validator node.
C16_SuccessCounts ==
  RemoteSuccess =>
    /\ \A c \in IssuedCalls : c.op = "allocate_node" => Count(issued, c) = 1
    /\ Cardinality(AllocatedNames("vault")) = N
    /\ Cardinality(AllocatedNames("lsr")) = N
    /\ Cardinality(AllocatedNames("validator")) = N
    /\ Cardinality(AllocatedNames("fullnode")) = N * F
    /\ OpCount("allocate_node") = 3 * N + N * F
    /\ Len(vault_nodes) = N /\ Len(lsrs_nodes) = N
    /\ Len(validator_nodes) = N /\ Len(fullnode_nodes) = N * F
    /\ OrderOf(glog) = ExpectedOrder(N)
    /\ OpCount("put_file") = N
    /\ \A i \in 0..(N - 1) :
         Cardinality({c \in IssuedCalls :
                        c.op = "put_file" /\ c.node = validator_pod_name(i)}) = 1
    /\ Cardinality(nodeFiles) = N

C16_Witness ==
  /\ RemoteSuccess
  /\ N = 2
  /\ F = 2
  /\ OpCount("allocate_node") = 10
  /\ OpCount("put_file") = 2

\* Calls issued and not returned Ok: in flight, failed, or dropped.
Unfinished == {c \in IssuedCalls : c \notin completed}
CallStates == {"alloc", "wipe", "spawn", "put"}
TasksIn(states) == {k \in DOMAIN tasks : tasks[k] \in states}
TaskOps == {"allocate_node", "clean_data", "spawn_new_instance", "put_file"}

\* C17: outside the retry of the secret-tier initialization every remote
\* operation (cleanup, pool resize, allocation, wipe, spawn, genesis-tool
\* call, file copy) is issued at most once per target, and its first failure
\* ends the run with that error: while the run goes on or has succeeded, no
\* issued call has failed.
C17_NoOtherRecovery ==
  /\ \A c \in IssuedCalls : Count(issued, c) = 1
  /\ \A m, n \in 1..Len(glog) : m # n => glog[m] # glog[n]
  /\ result.kind \in {"running", "ok"} =>
       /\ Cardinality(Unfinished) = Cardinality(TasksIn(CallStates))
       /\ pipeline # "failed"
       /\ TasksIn({"err"} \cup Dropped) = {}
  /\ result.kind = "ok" => Unfinished = {}
  /\ (result.kind = "err" /\ result.err.op \in TaskOps) =>
       /\ Cardinality(Unfinished) = 1 + Cardinality(TasksIn(Dropped))
       /\ \E c \in Unfinished : c.op = result.err.op /\ c.node = result.err.target
  /\ (result.kind = "err" /\ result.err.op \in {"cleanup", "set_asg_size"}) =>
       Cardinality(Unfinished) = 1
  /\ (result.kind = "err" /\ result.err.op \in RemoteSteps) =>
       (Unfinished = {} /\ Last(glog).op = result.err.op)

C17_Witness ==
  /\ result.kind = "err"
  /\ result.err.op = "put_file"
  /\ \E i \in DOMAIN attempts : attempts[i] = 2
  /\ TasksIn(Dropped) # {}

SeededSpawns ==
  {c \in IssuedCalls :
     c.op = "spawn_new_instance" /\ c.node.role \in {"validator", "fullnode"}}

\* C18 as stated: every validator and every fullnode configuration is
\* spawned with the allocated address of validator node 0 as its peer seed.
C18_Original ==
  \A c \in SeededSpawns :
    /\ validator_nodes # <<>>
    /\ c.arg.seed = At(validator_nodes, 0).internal_ip

\* C18 amended: every validator is spawned with the allocated address of
\* validator node 0 as its peer seed, and every fullnode of validator v with
\* the allocated address of validator node v.
C18_PeerSeed ==
  \A c \in SeededSpawns :
    /\ Len(validator_nodes) = N
    /\ c.node.idx < N
    /\ At(validator_nodes, c.node.idx).name = validator_pod_name(c.node.idx)
    /\ c.node.role = "validator" => c.arg.seed = At(validator_nodes, 0).internal_ip
    /\ c.node.role = "fullnode" =>
         c.arg.seed = At(validator_nodes, c.node.idx).internal_ip

C18_Witness ==
  /\ \E c \in SeededSpawns :
       /\ c.node = fullnode_pod_name(1, 0)
       /\ c.arg.seed = At(validator_nodes, 1).internal_ip
       /\ c.arg.seed # At(validator_nodes, 0).internal_ip
  /\ \E c \in SeededSpawns :
       /\ c.node = validator_pod_name(1)
       /\ c.arg.seed = At(validator_nodes, 0).internal_ip

ValidatorSpawnFailed ==
  /\ result.kind = "err"
  /\ result.err.op \in {"spawn_new_instance", "clean_data"}
  /\ result.err.target.role = "validator"

\* C19 as stated: a validator spawn failure does not by itself prevent the
\* fullnode spawns: after it, with fullnodes to spawn, either a fullnode
\* spawn has been issued or the run is still going on.
C19_Original ==
  (ValidatorSpawnFailed /\ F > 0) => (SpawnIssued("fullnode") \/ pc # "failed")

\* C19 amended: fullnode spawning follows validator spawning: a fullnode
\* spawn or wipe is issued only after every validator instance has been
\* spawned successfully, and after a validator spawn failure no fullnode
\* spawn or wipe is ever issued.
C19_FullnodesAfterValidators ==
  /\ (\E c \in IssuedCalls :
        c.op \in {"spawn_new_instance", "clean_data"} /\ c.node.role = "fullnode") =>
       /\ AllSpawned({"validator"})
       /\ Len(instances.validators) = N
  /\ ValidatorSpawnFailed =>
       /\ pc = "failed"
       /\ \A c \in IssuedCalls :
            c.op \in {"spawn_new_instance", "clean_data"} => c.node.role # "fullnode"

C19_Witness ==
  /\ ValidatorSpawnFailed
  /\ F > 0
  /\ AllAllocated({"fullnode"})
  /\ ~SpawnIssued("fullnode")
  /\ \E n \in RoleNames("validator") : SpawnDone(n)

\* The fullnode nodes that belong to validator i.
FullnodesOf(i) == {KubeNode(fullnode_pod_name(i, k)) : k \in 0..(F - 1)}
IndexPanic == result.kind = "panic" /\ result.err.op = "index out of bounds"

\* C20: in the genesis loop the validator-to-fullnode endpoint registered for
\* validator i is the address of an allocated fullnode node of validator i,
\* and the lookup never falls outside the allocated fullnode sequence.
C20_FullnodeEndpoint ==
  /\ ~IndexPanic
  /\ \A m \in 1..Len(glog) :
       glog[m].op = "validator_config" =>
         \E node \in FullnodesOf(glog[m].pod.idx) :
           /\ glog[m].faddr = Addr(node.internal_ip)
           /\ \E j \in 1..Len(fullnode_nodes) : fullnode_nodes[j] = node

Wiped(name) == Call("clean_data", name, NoArg) \in completed
KeyCreationStarted(i) ==
  attempts[i] > 0 \/ store[i] # {} \/ BagIn(i, rootKeyCalls)

\* C21: the first key-slot creation on secret node i is issued only after
\* the secret-store instance of index i has been spawned successfully, and on
\* a clean run after the data of node i has been wiped; on a clean run the
\* wipe of a node has completed before the SpawnInstance call for that node
\* is issued; on a non-clean run no wipe and no pool-resize call is issued.
C21_WipeSpawnInit ==
  /\ \A i \in DOMAIN attempts :
       KeyCreationStarted(i) =>
         /\ i < Len(vault_nodes)
         /\ SpawnDone(vault_pod_name(i))
         /\ params.clean_data => Wiped(At(vault_nodes, i).name)
  /\ \A c \in IssuedCalls :
       /\ (c.op = "spawn_new_instance" /\ params.clean_data) => Wiped(c.node)
       /\ c.op \in {"clean_data", "set_asg_size"} => params.clean_data
       /\ c.op = "clean_data" => Count(issued, c) = 1 /\ Allocated(c.node)

C21_Witness ==
  /\ params.clean_data
  /\ N = 2
  /\ KeyCreationStarted(1)
  /\ store[1] # {}
  /\ Wiped(vault_pod_name(0)) /\ Wiped(vault_pod_name(1))
  /\ SpawnDone(vault_pod_name(1))

====
